---------------------------- MODULE Spec2Model ----------------------------
(***************************************************************************)
(* A model of rules_python_external:                                       *)
(*   extract_wheels/__init__.py  configure_reproducible_wheels, _dl_wheel, *)
(*                               _fetch_packages_parallel, main            *)
(*   src/entry_points.py         install_entry_points,                     *)
(*                               entry_point_build_file_targets            *)
(* Strings are TLA+ strings; a process environment and a directory are     *)
(* functions / sets of strings.                                            *)
(***************************************************************************)
EXTENDS Integers, Sequences, FiniteSets, TLC

VARIABLES
    env,            \* os.environ: a function from variable names to strings
    envLog,         \* the environment before the first call and after each call
    pc,             \* position of the main thread in main()
    precompiled,    \* args.precompiled
    reqLines,       \* the lines of the requirements file
    wheel_cmd_opts, \* _fetch_packages_parallel: options taken from the file
    parsed_reqs,    \* _fetch_packages_parallel: the parsed requirements
    futures,        \* ex.map: one future per submitted call (its result, or None)
    work_queue,     \* the executor's queue of submitted, not yet taken, calls
    threads,        \* the number of worker threads the executor has started
    exited,         \* the number of worker threads that have ended
    in_flight,      \* the calls worker threads are running: call index and pid
    launched,       \* every subprocess started in this run, in start order
    failed_procs,   \* _fetch_packages_parallel: the completed processes that failed
    error,          \* the exception main() ended with, or NoError
    requirements_bzl, \* whether requirements.bzl has been opened for writing
    has_dist,       \* whether the extracted directory holds a distribution
    pkg_name,       \* the package the extracted wheel belongs to
    entry_points,   \* the distribution's console_scripts names, in map order
    bin_files,      \* the file names in the directory's bin/
    returned,       \* what each install_entry_points call returned
    binLog,         \* bin/ after each install_entry_points call
    ep_error,       \* the exception install_entry_points raised, or NoError
    build_text      \* the text entry_point_build_file_targets made last

envVars   == <<env, envLog>>
fetchVars == <<pc, precompiled, reqLines, wheel_cmd_opts, parsed_reqs, futures,
               work_queue, threads, exited, in_flight, launched, failed_procs, error,
               requirements_bzl>>
entryVars == <<has_dist, pkg_name, entry_points, bin_files, returned, binLog,
               ep_error, build_text>>
vars == <<envVars, fetchVars, entryVars>>

-----------------------------------------------------------------------------
(* Bounds of the model *)

\* the largest number of requirement lines in a requirements file
MaxReqs == 6
\* the largest number of configure_reproducible_wheels calls explored
MaxCalls == 3
\* the largest number of console_scripts entry points of a distribution
MaxEntryPoints == 2
\* the largest number of install_entry_points calls on one directory
MaxInstalls == 2

-----------------------------------------------------------------------------
(* Strings *)

startswith(s, p) == Len(s) >= Len(p) /\ SubSeq(s, 1, Len(p)) = p

endswith(s, p) == Len(s) >= Len(p) /\ SubSeq(s, Len(s) - Len(p) + 1, Len(s)) = p

\* the position of the first occurrence of character c in s at or after i, or 0
RECURSIVE find(_, _, _)
find(s, c, i) ==
    IF i > Len(s) THEN 0
    ELSE IF SubSeq(s, i, i) = c THEN i
    ELSE find(s, c, i + 1)

\* str.split(): the maximal runs of non-blank characters, in order
RECURSIVE split(_)
split(s) ==
    IF Len(s) = 0 THEN <<>>
    ELSE IF SubSeq(s, 1, 1) = " " THEN split(Tail(s))
    ELSE LET sp == find(s, " ", 1) IN
         IF sp = 0 THEN <<s>>
         ELSE <<SubSeq(s, 1, sp - 1)>> \o split(SubSeq(s, sp + 1, Len(s)))

NoError == [type |-> "NoError"]

-----------------------------------------------------------------------------
(* configure_reproducible_wheels *)

EnvNames == {"CFLAGS", "SOURCE_DATE_EPOCH", "PYTHONHASHSEED"}

setenv(e, k, v) == [n \in DOMAIN e \cup {k} |-> IF n = k THEN v ELSE e[n]]

configure_cflags_once(e) ==
    IF "CFLAGS" \in DOMAIN e THEN e ELSE setenv(e, "CFLAGS", "-g0")

configure_cflags(e) ==
    IF "CFLAGS" \in DOMAIN e
    THEN setenv(e, "CFLAGS", e["CFLAGS"] \o " -g0")
    ELSE setenv(e, "CFLAGS", "-g0")

configure_source_date_epoch(e) ==
    IF "SOURCE_DATE_EPOCH" \notin DOMAIN e
    THEN setenv(e, "SOURCE_DATE_EPOCH", "315532800")
    ELSE e

configure_pythonhashseed(e) ==
    IF "PYTHONHASHSEED" \notin DOMAIN e
    THEN setenv(e, "PYTHONHASHSEED", "0")
    ELSE e

configure_reproducible_wheels(e) ==
    configure_pythonhashseed(configure_source_date_epoch(configure_cflags(e)))

\* the environments a run can start in: each variable unset or set
InitialValues ==
    [CFLAGS |-> {"", "-O2", "-g0", "-O2 -g0"},
     SOURCE_DATE_EPOCH |-> {"0", "315532800"},
     PYTHONHASHSEED |-> {"0", "random"}]

InitialEnvs ==
    {e \in UNION {[D -> UNION {InitialValues[n] : n \in D}] : D \in SUBSET EnvNames} :
        \A n \in DOMAIN e : e[n] \in InitialValues[n]}

\* one more call of configure_reproducible_wheels on the process environment
EnvCall ==
    /\ Len(envLog) <= MaxCalls
    /\ env' = configure_reproducible_wheels(env)
    /\ envLog' = Append(envLog, env')
    /\ UNCHANGED <<fetchVars, entryVars>>

-----------------------------------------------------------------------------
(* The requirements file *)

\* requirement lines of a pinned requirements file, all distinct
ReqPool == <<"a==1", "b==2", "c==3", "d==4", "e==5", "f==6", "g==7", "h==8", "i==9">>

\* the lines that may stand above the requirement lines
HeaderChoices ==
    {<<>>, <<"--index-url https://idx  --pre", "# locked">>}

RequirementsFiles ==
    {h \o SubSeq(ReqPool, 1, n) : h \in HeaderChoices, n \in 0..MaxReqs}

RECURSIVE extend_opts(_)
extend_opts(lines) ==
    IF lines = <<>> THEN <<>>
    ELSE (IF startswith(Head(lines), "--") THEN split(Head(lines)) ELSE <<>>)
         \o extend_opts(Tail(lines))

\* pip's parse_requirements: option, comment and blank lines yield no
\* requirement; a requirement line yields its name and version specifier
is_requirement_line(l) ==
    Len(l) > 0 /\ ~startswith(l, "-") /\ ~startswith(l, "#")

parse_requirement(l) ==
    LET p == find(l, "=", 1) IN
    [name |-> SubSeq(l, 1, p - 1), specifier |-> SubSeq(l, p, Len(l))]

RECURSIVE parse_requirements(_)
parse_requirements(lines) ==
    IF lines = <<>> THEN <<>>
    ELSE (IF is_requirement_line(Head(lines))
          THEN <<parse_requirement(Head(lines))>> ELSE <<>>)
         \o parse_requirements(Tail(lines))

-----------------------------------------------------------------------------
(* Subprocesses *)

sys_executable == "python"

dl_wheel_cmd_with_deps(req, additional_wheel_opts) ==
    <<sys_executable, "-m", "pip", "wheel">>
        \o additional_wheel_opts \o <<req.name \o req.specifier>>

dl_wheel_cmd(req, additional_wheel_opts) ==
    <<sys_executable, "-m", "pip", "wheel", "--no-deps">>
        \o additional_wheel_opts \o <<req.name \o req.specifier>>

requirements_path == "requirements.txt"

wheel_cmd == <<sys_executable, "-m", "pip", "wheel", "-r", requirements_path>>

ExitCodes == {0, 1}

\* subprocess.Popen: a new entry at the end of the process table
Popen(cmd) == Append(launched, [args |-> cmd, status |-> "running"])

\* the positions in the process table of the subprocesses still running
Running == {k \in DOMAIN launched : launched[k].status = "running"}

\* the subprocess at position k exits with code rc
Exit(k, rc) ==
    [launched EXCEPT ![k] = [args |-> @.args, status |-> "exited", returncode |-> rc]]

\* what subprocess.run returns for an exited subprocess
CompletedProcess(p) == [args |-> p.args, returncode |-> p.returncode]

-----------------------------------------------------------------------------
(* concurrent.futures.ThreadPoolExecutor(5) *)

max_workers == 5

Pending == [done |-> FALSE]
Resolved(r) == [done |-> TRUE, result |-> r]

\* submit's _adjust_thread_count: start a worker thread unless one is idle or
\* the pool is full
adjust_thread_count_never(num_threads, reuse) == num_threads

adjust_thread_count_unbounded(num_threads, reuse) ==
    IF reuse THEN num_threads ELSE num_threads + 1

adjust_thread_count(num_threads, reuse) ==
    IF ~reuse /\ num_threads < max_workers THEN num_threads + 1 ELSE num_threads

\* the worker threads waiting for work
Idle == threads - exited - Cardinality(in_flight)

\* whether submit may find a worker waiting on the idle semaphore
ReuseChoices == IF Idle > 0 THEN {TRUE, FALSE} ELSE {FALSE}

\* shutdown(wait=True) returns once every worker thread has been joined
threads_joined_nowait(num_threads, num_exited) == TRUE

threads_joined(num_threads, num_exited) == num_exited = num_threads

\* the list comprehension over completed_procs takes every future's result
results_ready(fs) == \A i \in DOMAIN fs : fs[i].done

first_failed_only(procs) ==
    LET f == SelectSeq(procs, LAMBDA proc : proc.returncode # 0)
    IN IF f = <<>> THEN f ELSE <<Head(f)>>

select_failed(procs) == SelectSeq(procs, LAMBDA proc : proc.returncode # 0)

\* subprocess.check_output raises CalledProcessError on a non-zero exit code
check_output_unchecked(rc) == FALSE

check_output_raises(rc) == rc # 0

-----------------------------------------------------------------------------
(* main *)

N == Len(parsed_reqs)

\* line 89
MainConfigure ==
    /\ pc = "configure"
    /\ env' = configure_reproducible_wheels(env)
    /\ pc' = "parse_args"
    /\ UNCHANGED <<envLog, entryVars, precompiled, reqLines, wheel_cmd_opts, parsed_reqs,
                   futures, work_queue, threads, exited, in_flight, launched, failed_procs, error,
                   requirements_bzl>>

\* lines 91-118: the mode is chosen by args.precompiled
MainDispatch ==
    /\ pc = "parse_args"
    /\ pc' = IF precompiled THEN "read_requirements" ELSE "check_output"
    /\ UNCHANGED <<envVars, entryVars, precompiled, reqLines, wheel_cmd_opts, parsed_reqs,
                   futures, work_queue, threads, exited, in_flight, launched, failed_procs, error,
                   requirements_bzl>>

\* line 120, first half: the whole-file resolver is started
ResolverStart ==
    /\ pc = "check_output"
    /\ launched' = Popen(wheel_cmd)
    /\ pc' = "check_output_wait"
    /\ UNCHANGED <<envVars, entryVars, precompiled, reqLines, wheel_cmd_opts, parsed_reqs,
                   futures, work_queue, threads, exited, in_flight, failed_procs, error,
                   requirements_bzl>>

\* line 120, second half: the resolver exits; a non-zero code raises
ResolverExit ==
    /\ pc = "check_output_wait"
    /\ \E rc \in ExitCodes :
        /\ launched' = Exit(Len(launched), rc)
        /\ IF check_output_raises(rc)
           THEN /\ pc' = "failed"
                /\ error' = [type |-> "CalledProcessError", returncode |-> rc,
                             cmd |-> wheel_cmd]
           ELSE /\ pc' = "extract"
                /\ UNCHANGED error
    /\ UNCHANGED <<envVars, entryVars, precompiled, reqLines, wheel_cmd_opts, parsed_reqs,
                   futures, work_queue, threads, exited, in_flight, failed_procs, requirements_bzl>>

\* lines 61-68
ReadRequirements ==
    /\ pc = "read_requirements"
    /\ wheel_cmd_opts' = extend_opts(reqLines)
    /\ parsed_reqs' = parse_requirements(reqLines)
    /\ pc' = "map"
    /\ UNCHANGED <<envVars, entryVars, precompiled, reqLines, futures, work_queue, threads, exited, in_flight,
                   launched, failed_procs, error, requirements_bzl>>

\* lines 71-75: ex.map submits one call per requirement, in order
Submit ==
    /\ pc = "map"
    /\ Len(futures) < N
    /\ futures' = Append(futures, Pending)
    /\ work_queue' = Append(work_queue, Len(futures) + 1)
    /\ \E reuse \in ReuseChoices :
          threads' = adjust_thread_count(threads, reuse)
    /\ UNCHANGED <<envVars, entryVars, pc, precompiled, reqLines, wheel_cmd_opts, parsed_reqs,
                   exited, in_flight, launched, failed_procs, error, requirements_bzl>>

\* line 70, leaving the with block: shutdown(wait=True) begins
Shutdown ==
    /\ pc = "map"
    /\ Len(futures) = N
    /\ pc' = "join"
    /\ UNCHANGED <<envVars, entryVars, precompiled, reqLines, wheel_cmd_opts, parsed_reqs,
                   futures, work_queue, threads, exited, in_flight, launched, failed_procs, error,
                   requirements_bzl>>

\* line 70, leaving the with block: shutdown(wait=True) returns
Join ==
    /\ pc = "join"
    /\ threads_joined(threads, exited)
    /\ pc' = "collect"
    /\ UNCHANGED <<envVars, entryVars, precompiled, reqLines, wheel_cmd_opts, parsed_reqs,
                   futures, work_queue, threads, exited, in_flight, launched, failed_procs, error,
                   requirements_bzl>>

\* lines 76-79
Collect ==
    /\ pc = "collect"
    /\ results_ready(futures)
    /\ failed_procs' = select_failed([i \in DOMAIN futures |-> futures[i].result])
    /\ IF failed_procs' # <<>>
       THEN /\ pc' = "failed"
            /\ error' = [type |-> "RuntimeError", args |-> failed_procs']
       ELSE /\ pc' = "extract"
            /\ UNCHANGED error
    /\ UNCHANGED <<envVars, entryVars, precompiled, reqLines, wheel_cmd_opts, parsed_reqs,
                   futures, work_queue, threads, exited, in_flight, launched, requirements_bzl>>

\* lines 122-127: the extras are parsed and every wheel is extracted; either
\* library call may raise
Extract ==
    /\ pc = "extract"
    /\ \E ok \in BOOLEAN :
        IF ok THEN pc' = "write" /\ UNCHANGED error
        ELSE pc' = "failed" /\ error' = [type |-> "LibraryError"]
    /\ UNCHANGED <<envVars, entryVars, precompiled, reqLines, wheel_cmd_opts, parsed_reqs,
                   futures, work_queue, threads, exited, in_flight, launched, failed_procs,
                   requirements_bzl>>

\* lines 129-132
Write ==
    /\ pc = "write"
    /\ requirements_bzl' = TRUE
    /\ pc' = "done"
    /\ UNCHANGED <<envVars, entryVars, precompiled, reqLines, wheel_cmd_opts, parsed_reqs,
                   futures, work_queue, threads, exited, in_flight, launched, failed_procs, error>>

-----------------------------------------------------------------------------
(* The executor's worker threads *)

\* an idle worker takes the next call off the queue and _dl_wheel starts its
\* subprocess
WorkerTake ==
    /\ Idle > 0
    /\ work_queue # <<>>
    /\ launched' = Popen(dl_wheel_cmd(parsed_reqs[Head(work_queue)], wheel_cmd_opts))
    /\ in_flight' = in_flight \cup
                       {[call |-> Head(work_queue), pid |-> Len(launched) + 1]}
    /\ work_queue' = Tail(work_queue)
    /\ UNCHANGED <<envVars, entryVars, pc, precompiled, reqLines, wheel_cmd_opts, parsed_reqs,
                   futures, threads, exited, failed_procs, error, requirements_bzl>>

\* the subprocess a worker waits for exits; subprocess.run returns and the
\* call's future gets its result
ProcExit(c) ==
    /\ c \in in_flight
    /\ \E rc \in ExitCodes :
        /\ launched' = Exit(c.pid, rc)
        /\ futures' = [futures EXCEPT ![c.call] =
                          Resolved(CompletedProcess(launched'[c.pid]))]
    /\ in_flight' = in_flight \ {c}
    /\ UNCHANGED <<envVars, entryVars, pc, precompiled, reqLines, wheel_cmd_opts, parsed_reqs,
                   work_queue, threads, exited, failed_procs, error,
                   requirements_bzl>>

\* after shutdown an idle worker that finds the queue empty ends
WorkerExit ==
    /\ Idle > 0
    /\ pc = "join"
    /\ work_queue = <<>>
    /\ exited' = exited + 1
    /\ UNCHANGED <<envVars, entryVars, pc, precompiled, reqLines, wheel_cmd_opts, parsed_reqs,
                   futures, work_queue, threads, in_flight, launched, failed_procs,
                   error, requirements_bzl>>

-----------------------------------------------------------------------------
(* install_entry_points *)

\* setuptools' install_scripts writes one script per console_scripts entry
\* point into install_dir, named after the entry point, replacing a file of
\* that name
install_scripts(files, names) == files \cup {names[i] : i \in DOMAIN names}

\* os.rename(fullname, fullname + ".py") replaces a file of the new name
rename(files, f, g) == (files \ {f}) \cup {g}

\* lines 44-47 over the names os.listdir gave, in any order
RECURSIVE rename_listed(_, _)
rename_listed(files, listed) ==
    IF listed = {} THEN files
    ELSE LET f == CHOOSE x \in listed : TRUE IN
         rename_listed(IF ~endswith(f, ".py") THEN rename(files, f, f \o ".py")
                       ELSE files,
                       listed \ {f})

add_py_suffix_never(files) == files

add_py_suffix(files) == rename_listed(files, files)

\* lines 10-49
InstallEntryPoints ==
    /\ Len(returned) < MaxInstalls
    /\ ep_error = NoError
    /\ IF ~has_dist
       THEN /\ ep_error' = [type |-> "RuntimeError"]
            /\ UNCHANGED <<bin_files, returned, binLog>>
       ELSE /\ bin_files' = add_py_suffix(install_scripts(bin_files, entry_points))
            /\ returned' = Append(returned, entry_points)
            /\ binLog' = Append(binLog, bin_files')
            /\ UNCHANGED ep_error
    /\ UNCHANGED <<envVars, fetchVars, has_dist, pkg_name, entry_points, build_text>>

-----------------------------------------------------------------------------
(* entry_point_build_file_targets *)

rule_unprefixed(package, entry_point_name) == entry_point_name

rule(package, entry_point_name) ==
    IF entry_point_name = package
    THEN "bin-" \o entry_point_name
    ELSE entry_point_name

_bazel_py_target_for_entry_point(package, entry_point_name) ==
    "py_binary(\n"
    \o "    name = \"" \o rule(package, entry_point_name) \o "\",\n"
    \o "    srcs = [\"bin/" \o entry_point_name \o ".py\"],\n"
    \o "    deps = [\":" \o package \o "\"],\n"
    \o "    visibility = [\"//visibility:public\"],\n"
    \o "    main = \"bin/" \o entry_point_name \o ".py\",\n"
    \o ")\n"

\* str.join
RECURSIVE join(_, _)
join(sep, strs) ==
    IF strs = <<>> THEN ""
    ELSE IF Len(strs) = 1 THEN Head(strs)
    ELSE Head(strs) \o sep \o join(sep, Tail(strs))

entry_point_build_file_targets(package, entry_point_names) ==
    join("\n", [i \in DOMAIN entry_point_names |->
                  _bazel_py_target_for_entry_point(package, entry_point_names[i])])

NoText == "<none>"

\* the wheel's BUILD file is made from the names the installer returned
GenerateTargets ==
    /\ returned # <<>>
    /\ build_text = NoText
    /\ build_text' = entry_point_build_file_targets(pkg_name, returned[Len(returned)])
    /\ UNCHANGED <<envVars, fetchVars, has_dist, pkg_name, entry_points, bin_files,
                   returned, binLog, ep_error>>

-----------------------------------------------------------------------------
(* Specifications *)

IdleEnvLog == envLog = <<>>

IdleFetch ==
    /\ pc = "idle"
    /\ precompiled = FALSE
    /\ reqLines = <<>>
    /\ wheel_cmd_opts = <<>>
    /\ parsed_reqs = <<>>
    /\ futures = <<>>
    /\ work_queue = <<>>
    /\ threads = 0
    /\ exited = 0
    /\ in_flight = {}
    /\ launched = <<>>
    /\ failed_procs = <<>>
    /\ error = NoError
    /\ requirements_bzl = FALSE

IdleEntry ==
    /\ has_dist = FALSE
    /\ pkg_name = ""
    /\ entry_points = <<>>
    /\ bin_files = {}
    /\ returned = <<>>
    /\ binLog = <<>>
    /\ ep_error = NoError
    /\ build_text = NoText

\* one run of main on a requirements file
Init ==
    /\ env = <<>>
    /\ IdleEnvLog
    /\ pc = "configure"
    /\ precompiled \in BOOLEAN
    /\ reqLines \in RequirementsFiles
    /\ wheel_cmd_opts = <<>>
    /\ parsed_reqs = <<>>
    /\ futures = <<>>
    /\ work_queue = <<>>
    /\ threads = 0
    /\ exited = 0
    /\ in_flight = {}
    /\ launched = <<>>
    /\ failed_procs = <<>>
    /\ error = NoError
    /\ requirements_bzl = FALSE
    /\ IdleEntry

Next ==
    \/ MainConfigure
    \/ MainDispatch
    \/ ResolverStart
    \/ ResolverExit
    \/ ReadRequirements
    \/ Submit
    \/ Shutdown
    \/ Join
    \/ Collect
    \/ Extract
    \/ Write
    \/ WorkerTake
    \/ \E c \in in_flight : ProcExit(c)
    \/ WorkerExit

Spec == Init /\ [][Next]_vars

\* repeated calls of configure_reproducible_wheels on every initial environment
EnvInit ==
    /\ env \in InitialEnvs
    /\ envLog = <<env>>
    /\ IdleFetch
    /\ IdleEntry

EnvNext == EnvCall

EnvSpec == EnvInit /\ [][EnvNext]_vars

\* the same run, with every thread and subprocess eventually taking its step
Fairness ==
    /\ WF_vars(MainConfigure \/ MainDispatch \/ ResolverStart \/ ResolverExit
               \/ ReadRequirements \/ Submit \/ Shutdown \/ Join \/ Collect
               \/ Extract \/ Write)
    /\ WF_vars(WorkerTake)
    /\ WF_vars(\E c \in in_flight : ProcExit(c))
    /\ WF_vars(WorkerExit)

FairSpec == Spec /\ Fairness

\* entry-point names a distribution may declare, and the package names
EntryPointNames == {"foo", "foo.py", "pkg", "bar"}
PackageNames == {"pkg", "foo"}
\* what bin/ may hold before the first call
InitialBins == {{}, {"old"}, {"old", "foo.py"}}

RECURSIVE DistinctSeqs(_, _)
DistinctSeqs(S, n) ==
    IF n = 0 THEN {<<>>}
    ELSE LET shorter == DistinctSeqs(S, n - 1) IN
         shorter \cup {Append(q, x) : q \in {r \in shorter : Len(r) = n - 1},
                                      x \in S}

\* an extracted wheel directory on which the installer runs, then the generator
EntryInit ==
    /\ env = <<>>
    /\ IdleEnvLog
    /\ IdleFetch
    /\ has_dist \in BOOLEAN
    /\ pkg_name \in PackageNames
    /\ entry_points \in {q \in DistinctSeqs(EntryPointNames, MaxEntryPoints) :
                            \A i, j \in DOMAIN q : i # j => q[i] # q[j]}
    /\ bin_files \in InitialBins
    /\ returned = <<>>
    /\ binLog = <<>>
    /\ ep_error = NoError
    /\ build_text = NoText

EntryNext == InstallEntryPoints \/ GenerateTargets

EntrySpec == EntryInit /\ [][EntryNext]_vars

-----------------------------------------------------------------------------
(* Properties of configure_reproducible_wheels, under EnvSpec *)

\* C1, as stated: the environment after two calls of
\* configure_reproducible_wheels equals the environment after one call.
C1_Idempotent == Len(envLog) >= 3 => envLog[3] = envLog[2]

\* C1, amended: every call leaves all three variables set; a variable set
\* before the first call keeps its value in SOURCE_DATE_EPOCH and
\* PYTHONHASHSEED and an unset one gets the fixed value, and a further call
\* changes neither; CFLAGS is not idempotent: every further call appends
\* " -g0" to the value the call before left.
C1_IdempotentExceptCflags ==
    /\ \A k \in 2..Len(envLog) :
        /\ DOMAIN envLog[k] = EnvNames
        /\ envLog[k]["SOURCE_DATE_EPOCH"] =
              IF "SOURCE_DATE_EPOCH" \in DOMAIN envLog[1]
              THEN envLog[1]["SOURCE_DATE_EPOCH"] ELSE "315532800"
        /\ envLog[k]["PYTHONHASHSEED"] =
              IF "PYTHONHASHSEED" \in DOMAIN envLog[1]
              THEN envLog[1]["PYTHONHASHSEED"] ELSE "0"
    /\ \A k \in 3..Len(envLog) :
        envLog[k]["CFLAGS"] = envLog[k - 1]["CFLAGS"] \o " -g0"

\* two calls made on an environment where only CFLAGS was set
C1_Witness ==
    /\ Len(envLog) >= 3
    /\ DOMAIN envLog[1] = {"CFLAGS"}
    /\ envLog[3] # envLog[2]

-----------------------------------------------------------------------------
(* Properties of main and _fetch_packages_parallel, under Spec and FairSpec *)

RequirementLines == {reqLines[i] : i \in {j \in DOMAIN reqLines :
                                            is_requirement_line(reqLines[j])}}

\* _fetch_packages_parallel has been left, by return or by its RuntimeError
FetchRaised == precompiled /\ pc = "failed" /\ error.type = "RuntimeError"
FetchReturned ==
    /\ precompiled
    /\ \/ pc \in {"extract", "write", "done"}
       \/ pc = "failed" /\ error.type = "LibraryError"

FailedPids == {k \in DOMAIN launched :
                 launched[k].status = "exited" /\ launched[k].returncode # 0}

\* C2: in parallel mode _fetch_packages_parallel raises exactly when some
\* fetch subprocess exited non-zero, and its error carries each subprocess
\* that exited non-zero once and no subprocess that exited zero.
C2_FailedSubset ==
    (FetchRaised \/ FetchReturned) =>
        /\ FetchRaised <=> FailedPids # {}
        /\ FetchRaised =>
            /\ Len(error.args) = Cardinality(FailedPids)
            /\ \A k \in DOMAIN launched :
                  k \in FailedPids <=>
                     \E j \in DOMAIN error.args :
                        /\ error.args[j].args = launched[k].args
                        /\ error.args[j].returncode = launched[k].returncode

\* three or more fetches, of which two failed and one succeeded
C2_Witness ==
    /\ FetchRaised
    /\ Cardinality(FailedPids) = 2
    /\ Len(launched) >= 3
    /\ launched[1].returncode = 0

\* C3: at most 5 fetch subprocesses run at the same time, whatever the number
\* of requirements.
C3_AtMostFive == Cardinality(Running) <= 5

\* five subprocesses run while a sixth requirement waits in the queue
C3_Witness == precompiled /\ Cardinality(Running) = 5 /\ work_queue # <<>>

\* C4: once the main thread has left the with block (so before the failed set
\* is computed and before the function returns or raises) the subprocess of
\* every requirement has been started and has exited, failures included.
C4_Barrier ==
    (precompiled /\ pc \in {"collect", "extract", "write", "done", "failed"}) =>
        /\ Len(launched) = Cardinality(RequirementLines)
        /\ \A k \in DOMAIN launched : launched[k].status = "exited"
        /\ Len(futures) = Cardinality(RequirementLines)
        /\ \A i \in DOMAIN futures : futures[i].done

\* more requirements than workers, the first fetch failed, the rest still ran
C4_Witness ==
    /\ FetchRaised
    /\ Len(launched) > 5
    /\ launched[1].returncode # 0
    /\ launched[Len(launched)].returncode = 0

FetchFinished ==
    /\ \A k \in DOMAIN launched : launched[k].status = "exited"
    /\ Len(launched) = IF precompiled THEN Cardinality(RequirementLines) ELSE 1

\* C5: requirements.bzl is written only after the fetch step finished with
\* every subprocess exiting zero; once a subprocess has exited non-zero the
\* run never goes on to the steps after the fetch, so it can end only in the
\* fetch's own failure, and requirements.bzl stays unwritten.
C5_NoPartialSuccess ==
    /\ requirements_bzl =>
          /\ FetchFinished
          /\ FailedPids = {}
    /\ FailedPids # {} =>
          /\ ~requirements_bzl
          /\ pc \notin {"extract", "write", "done"}
          /\ error.type # "LibraryError"

\* the sequential resolver exited non-zero and the run failed without writing
C5_Witness ==
    /\ ~precompiled
    /\ pc = "failed"
    /\ FailedPids = {1}
    /\ ~requirements_bzl

Last(q) == q[Len(q)]
Has(q, x) == \E j \in DOMAIN q : q[j] = x

FetchLeft == pc \in {"collect", "extract", "write", "done", "failed"}

C9_NeverHangs ==
    (precompiled /\ pc = "read_requirements") ~> (FetchReturned \/ FetchRaised)

\* a fetch of more requirements than workers that returned
C9_Witness ==
    /\ FetchReturned
    /\ pc = "extract"
    /\ Len(launched) > 5

-----------------------------------------------------------------------------
(* Properties of install_entry_points and entry_point_build_file_targets,   *)
(* under EntrySpec                                                          *)

\* the lines of a text
RECURSIVE Lines(_)
Lines(text) ==
    IF text = "" THEN <<>>
    ELSE LET nl == find(text, "\n", 1) IN
         IF nl = 0 THEN <<text>>
         ELSE <<SubSeq(text, 1, nl - 1)>> \o Lines(SubSeq(text, nl + 1, Len(text)))

\* what stands between prefix and suffix on each line that starts with prefix
Fields(text, prefix, suffix) ==
    LET ls == SelectSeq(Lines(text), LAMBDA l : startswith(l, prefix))
    IN [i \in DOMAIN ls |->
          IF endswith(ls[i], suffix) /\ Len(ls[i]) >= Len(prefix) + Len(suffix)
          THEN SubSeq(ls[i], Len(prefix) + 1, Len(ls[i]) - Len(suffix))
          ELSE "<malformed>"]

GivenNames == returned[Len(returned)]

\* C7: the text holds one py_binary declaration per entry-point name, in the
\* order of the names; the i-th has source and main bin/{name}.py, the single
\* dependency :{package}, and the identifier "bin-" + name when the name is
\* the package's and the bare name otherwise.
C7_OneTargetPerName ==
    build_text # NoText =>
        /\ Len(SelectSeq(Lines(build_text), LAMBDA l : l = "py_binary(")) =
              Len(GivenNames)
        /\ Fields(build_text, "    name = \"", "\",") =
              [i \in DOMAIN GivenNames |->
                  IF GivenNames[i] = pkg_name THEN "bin-" \o GivenNames[i]
                  ELSE GivenNames[i]]
        /\ Fields(build_text, "    srcs = [\"", "\"],") =
              [i \in DOMAIN GivenNames |-> "bin/" \o GivenNames[i] \o ".py"]
        /\ Fields(build_text, "    main = \"", "\",") =
              [i \in DOMAIN GivenNames |-> "bin/" \o GivenNames[i] \o ".py"]
        /\ Fields(build_text, "    deps = [\"", "\"],") =
              [i \in DOMAIN GivenNames |-> ":" \o pkg_name]

\* two names, the second of them the package's own
C7_Witness ==
    /\ build_text # NoText
    /\ Len(GivenNames) = 2
    /\ GivenNames[1] # pkg_name
    /\ GivenNames[2] = pkg_name

\* C8: every call of install_entry_points on one directory returns the same
\* names and leaves the same files in bin/ as the call before, and after each
\* call every file name in bin/ ends with ".py".
C8_InstallIdempotent ==
    /\ \A k \in 2..Len(returned) :
          /\ returned[k] = returned[k - 1]
          /\ binLog[k] = binLog[k - 1]
    /\ \A k \in DOMAIN binLog : \A f \in binLog[k] : endswith(f, ".py")

\* two calls on a distribution with two entry points, one needing the suffix
C8_Witness ==
    /\ Len(returned) = 2
    /\ Len(entry_points) = 2
    /\ \E i \in DOMAIN entry_points : ~endswith(entry_points[i], ".py")
    /\ "old.py" \in bin_files

\* C10: after a successful install_entry_points call the file bin/n.py exists
\* for every returned name n, so every source the generated targets name is a
\* file of bin/.
C10_SourcesExist ==
    /\ \A k \in DOMAIN returned : \A i \in DOMAIN returned[k] :
          (returned[k][i] \o ".py") \in binLog[k]
    /\ build_text # NoText =>
          LET srcs == Fields(build_text, "    srcs = [\"", "\"],") IN
          \A i \in DOMAIN srcs : \E f \in bin_files : srcs[i] = "bin/" \o f

=============================================================================
